---- MODULE Spec2Model ----
(***************************************************************************)
(* Zero-knowledge claim proof pipeline of the Divine Wrath browser client. *)
(*                                                                         *)
(* Modelled from src/src/hooks/usePlayerData.ts (the zkProof utilities):   *)
(*   verifyClaimLocally  - pure claim-truth evaluator on the 3x3 grid      *)
(*   generateClaimProof  - async orchestration around snarkjs fullProve    *)
(*   verifyProof         - local verification with the cached key          *)
(*   serializeProof, deserializeProof - JSON transport of a proof          *)
(* and from src/unnamed/part_009 (the blockchain service):                 *)
(*   decimalToBytes32, g1PointToBytes, g2PointToBytes,                     *)
(*   convertSnarkjsProofToContract - the byte codec of the proof           *)
(*   submitClaim, submitClaimRelayed - the contract message of a claim     *)
(* from src/src/components/Game.tsx:                                       *)
(*   handleClaim         - proof generation and submission of a claim      *)
(* and from src/unnamed/part_000: ADJACENCY_MAP, the adjacency table.      *)
(*                                                                         *)
(* SpecEval applies verifyClaimLocally to inputs drawn from bounded sets.  *)
(* Spec runs generateClaimProof calls, each an async function whose steps  *)
(* interleave with the steps of the other call and with the external       *)
(* prover settling its promise.                                            *)
(***************************************************************************)
EXTENDS Integers, Sequences, FiniteSets, TLC

VARIABLES ev, gen, vkCache, ver, codec, tr, chain, game

vars == <<ev, gen, vkCache, ver, codec, tr, chain, game>>

----------------------------------------------------------------------------
(* Bounds of the explored input space.                                     *)

\* how far beyond the grid 1..9 the positions handed to the evaluator reach
PositionMargin == 3

\* how far beyond 0..9 the claim values handed to the evaluator reach
ValueMargin == 4

\* how far beyond the grid the positions handed to generateClaimProof reach
GenPositionMargin == 1

\* largest claim value handed to generateClaimProof
MaxGenValue == 2

Positions == (1 - PositionMargin)..(9 + PositionMargin)
ClaimValues == (0 - ValueMargin)..(9 + ValueMargin)
GenPositions == (1 - GenPositionMargin)..(9 + GenPositionMargin)
GenValues == 0..MaxGenValue

----------------------------------------------------------------------------
(* Claim types.  ClaimType is a TypeScript union, erased at run time, so a *)
(* caller can pass any string; UnknownClaimTypes stands for those strings. *)

ClaimTypes == {"row", "column", "adjacent"}
UnknownClaimTypes == {"diagonal"}
AllClaimTypes == ClaimTypes \cup UnknownClaimTypes

\* JavaScript undefined, the value of a lookup with a key the map lacks;
\* distinct from every number CLAIM_TYPE_MAP holds
Undefined == -1

CLAIM_TYPE_MAP == [row |-> 0, column |-> 1, adjacent |-> 2]

\* CLAIM_TYPE_MAP[claimType] as JavaScript evaluates it
ClaimTypeNumber(claimType) ==
    IF claimType \in DOMAIN CLAIM_TYPE_MAP
    THEN CLAIM_TYPE_MAP[claimType]
    ELSE Undefined

----------------------------------------------------------------------------
(* JavaScript arithmetic on integers.                                      *)

Abs(x) == IF x < 0 THEN -x ELSE x

\* Math.floor(a / 3): floor division, also for negative a
FloorDiv3(a) == a \div 3

\* a % 3 in JavaScript: the remainder takes the sign of the dividend
JsRem3(a) == IF a >= 0 THEN a % 3 ELSE -((-a) % 3)

----------------------------------------------------------------------------
(* Outcome of a synchronous call: a returned boolean or a thrown Error.    *)

PositionErrorMessage == "Position must be between 1 and 9"

Returned(v) == [threw |-> FALSE, value |-> v, error |-> "none"]
Threw(msg) == [threw |-> TRUE, value |-> FALSE, error |-> msg]

----------------------------------------------------------------------------
(* verifyClaimLocally                                                      *)

ValidPosition_ZeroAllowed(position) == ~(position < 0 \/ position > 9)

\* the guard of the position check: position < 1 || position > 9 throws
ValidPosition(position) == ~(position < 1 \/ position > 9)

Row_NoOffset(position) == FloorDiv3(position)

Row(position) == FloorDiv3(position - 1)

Col(position) == JsRem3(position - 1)

IsAdjacent_Diagonal(row, col, claimValue) ==
    LET otherRow == FloorDiv3(claimValue - 1)
        otherCol == JsRem3(claimValue - 1)
        rowDiff == Abs(row - otherRow)
        colDiff == Abs(col - otherCol)
    IN  (rowDiff = 1 /\ colDiff <= 1) \/ (rowDiff = 0 /\ colDiff = 1)

IsAdjacent_NoAbs(row, col, claimValue) ==
    LET otherRow == FloorDiv3(claimValue - 1)
        otherCol == JsRem3(claimValue - 1)
        rowDiff == row - otherRow
        colDiff == col - otherCol
    IN  (rowDiff = 1 /\ colDiff = 0) \/ (rowDiff = 0 /\ colDiff = 1)

\* case 'adjacent': orthogonal neighbours only
IsAdjacent(row, col, claimValue) ==
    LET otherRow == FloorDiv3(claimValue - 1)
        otherCol == JsRem3(claimValue - 1)
        rowDiff == Abs(row - otherRow)
        colDiff == Abs(col - otherCol)
    IN  (rowDiff = 1 /\ colDiff = 0) \/ (rowDiff = 0 /\ colDiff = 1)

verifyClaimLocally_NoPositionCheck(position, claimType, claimValue) ==
    LET row == Row(position)
        col == Col(position)
    IN  CASE claimType = "row" -> Returned(row = claimValue)
          [] claimType = "column" -> Returned(col = claimValue)
          [] claimType = "adjacent" -> Returned(IsAdjacent(row, col, claimValue))
          [] OTHER -> Returned(FALSE)

verifyClaimLocally(position, claimType, claimValue) ==
    IF ~ValidPosition(position)
    THEN Threw(PositionErrorMessage)
    ELSE LET row == Row(position)
             col == Col(position)
         IN  CASE claimType = "row" -> Returned(row = claimValue)
               [] claimType = "column" -> Returned(col = claimValue)
               [] claimType = "adjacent" -> Returned(IsAdjacent(row, col, claimValue))
               [] OTHER -> Returned(FALSE)

----------------------------------------------------------------------------
(* The hand-written adjacency table of the game constants                  *)
(* (src/unnamed/part_000).                                                 *)

ADJACENCY_MAP_WrapsRows ==
    [p \in 1..9 |->
        CASE p = 1 -> <<2, 4>>
          [] p = 2 -> <<1, 3, 5>>
          [] p = 3 -> <<2, 4, 6>>
          [] p = 4 -> <<1, 3, 5, 7>>
          [] p = 5 -> <<2, 4, 6, 8>>
          [] p = 6 -> <<3, 5, 7, 9>>
          [] p = 7 -> <<4, 6, 8>>
          [] p = 8 -> <<5, 7, 9>>
          [] p = 9 -> <<6, 8>>]

ADJACENCY_MAP ==
    [p \in 1..9 |->
        CASE p = 1 -> <<2, 4>>
          [] p = 2 -> <<1, 3, 5>>
          [] p = 3 -> <<2, 6>>
          [] p = 4 -> <<1, 5, 7>>
          [] p = 5 -> <<2, 4, 6, 8>>
          [] p = 6 -> <<3, 5, 9>>
          [] p = 7 -> <<4, 8>>
          [] p = 8 -> <<5, 7, 9>>
          [] p = 9 -> <<6, 8>>]

\* ADJACENCY_MAP[p].includes(q)
ListedAdjacent(p, q) ==
    \E i \in 1..Len(ADJACENCY_MAP[p]) : ADJACENCY_MAP[p][i] = q

----------------------------------------------------------------------------
(* Evaluator harness: one call of verifyClaimLocally and its outcome.      *)

EvIdle ==
    [called |-> FALSE, position |-> 0, claimType |-> "row", claimValue |-> 0,
     result |-> Returned(FALSE)]

\* a caller invokes verifyClaimLocally(position, claimType, claimValue)
CallVerifyClaimLocally(position, claimType, claimValue) ==
    /\ ev' = [called |-> TRUE, position |-> position, claimType |-> claimType,
              claimValue |-> claimValue,
              result |-> verifyClaimLocally(position, claimType, claimValue)]
    /\ UNCHANGED <<gen, vkCache, ver, codec, tr, chain, game>>

----------------------------------------------------------------------------
(* generateClaimProof                                                      *)

GenCalls == {1, 2}

NoInputs == [position |-> 0, claimType |-> Undefined, claimValue |-> 0,
             expectedResult |-> 0]

NoResult == [present |-> FALSE, proof |-> "none", publicSignals |-> "none",
             isTrue |-> FALSE]

\* what the external prover hands back when it succeeds
ProverOutputs == {[proof |-> "proof", publicSignals |-> "signals"]}

ProverErrorMessage == "prover failed"

GenIdle ==
    [pc |-> "idle", position |-> 0, claimType |-> "row", claimValue |-> 0,
     isTrueSet |-> FALSE, isTrue |-> FALSE,
     proverCalls |-> 0, proverInputs |-> NoInputs,
     result |-> NoResult, error |-> "none"]

ExpectedResult_AlwaysOne(isTrue) == 1

\* expectedResult: isTrue ? 1 : 0
ExpectedResult(isTrue) == IF isTrue THEN 1 ELSE 0

\* the inputs object prepared for the circuit
CircuitInputs(position, claimType, claimValue, isTrue) ==
    [position |-> position,
     claimType |-> ClaimTypeNumber(claimType),
     claimValue |-> claimValue,
     expectedResult |-> ExpectedResult(isTrue)]

GenReturnValue_FromSignals(out, isTrue) ==
    [present |-> TRUE, proof |-> out.proof, publicSignals |-> out.publicSignals,
     isTrue |-> TRUE]

\* return { proof, publicSignals, isTrue }
GenReturnValue(out, isTrue) ==
    [present |-> TRUE, proof |-> out.proof, publicSignals |-> out.publicSignals,
     isTrue |-> isTrue]

\* entry of generateClaimProof up to the local verification: the call either
\* throws out of verifyClaimLocally (the promise rejects) or holds isTrue
GenEntry(c, position, claimType, claimValue) ==
    /\ gen[c].pc = "idle"
    /\ LET r == verifyClaimLocally(position, claimType, claimValue)
           g == [gen[c] EXCEPT !.position = position,
                               !.claimType = claimType,
                               !.claimValue = claimValue]
       IN  IF r.threw
           THEN gen' = [gen EXCEPT ![c] =
                          [g EXCEPT !.pc = "rejected", !.error = r.error]]
           ELSE gen' = [gen EXCEPT ![c] =
                          [g EXCEPT !.pc = "evaluated", !.isTrueSet = TRUE,
                                    !.isTrue = r.value]]

\* a caller outside the component invokes generateClaimProof
GenCall(c, position, claimType, claimValue) ==
    /\ GenEntry(c, position, claimType, claimValue)
    /\ UNCHANGED <<ev, vkCache, ver, codec, tr, chain, game>>

GenInvokeProver_SharedIsTrue(c) ==
    /\ gen[c].pc = "evaluated"
    /\ \E d \in GenCalls :
         /\ gen[d].isTrueSet
         /\ gen' = [gen EXCEPT ![c] =
                      [@ EXCEPT !.pc = "awaitProver",
                                !.proverCalls = @ + 1,
                                !.proverInputs =
                                    CircuitInputs(gen[c].position,
                                                  gen[c].claimType,
                                                  gen[c].claimValue,
                                                  gen[d].isTrue)]]
    /\ UNCHANGED <<ev, vkCache, ver, codec, tr, chain, game>>

\* builds the circuit inputs and invokes snarkjs.groth16.fullProve
GenInvokeProver(c) ==
    /\ gen[c].pc = "evaluated"
    /\ gen' = [gen EXCEPT ![c] =
                 [@ EXCEPT !.pc = "awaitProver",
                           !.proverCalls = @ + 1,
                           !.proverInputs =
                               CircuitInputs(gen[c].position, gen[c].claimType,
                                             gen[c].claimValue, gen[c].isTrue)]]
    /\ UNCHANGED <<ev, vkCache, ver, codec, tr, chain, game>>

\* fullProve resolves: the call returns {proof, publicSignals, isTrue}
GenProverResolves(c, out) ==
    /\ gen[c].pc = "awaitProver"
    /\ gen' = [gen EXCEPT ![c] =
                 [@ EXCEPT !.pc = "resolved",
                           !.result = GenReturnValue(out, gen[c].isTrue)]]
    /\ UNCHANGED <<ev, vkCache, ver, codec, tr, chain, game>>

GenProverRejects_Retry(c) ==
    /\ gen[c].pc = "awaitProver"
    /\ gen' = [gen EXCEPT ![c] =
                 [@ EXCEPT !.pc = IF gen[c].proverCalls < 2 THEN "awaitProver"
                                  ELSE "rejected",
                           !.proverCalls = IF @ < 2 THEN @ + 1 ELSE @,
                           !.error = ProverErrorMessage]]
    /\ UNCHANGED <<ev, vkCache, ver, codec, tr, chain, game>>

\* fullProve rejects: nothing catches it, the call's promise rejects
GenProverRejects(c) ==
    /\ gen[c].pc = "awaitProver"
    /\ gen' = [gen EXCEPT ![c] =
                 [@ EXCEPT !.pc = "rejected", !.error = ProverErrorMessage]]
    /\ UNCHANGED <<ev, vkCache, ver, codec, tr, chain, game>>

----------------------------------------------------------------------------
(* loadVerificationKey and verifyProof                                     *)

VerCalls == {1, 2}

\* vkCache = null
NoKey == "null"

\* documents the server may answer with at VK_PATH
Artifacts == {"vkA", "vkB"}

VkLoadErrorMessage == "Failed to load verification key"
FetchErrorMessage == "fetch failed"
JsonErrorMessage == "invalid JSON"
VerifierErrorMessage == "verifier failed"

NoVerdict == [present |-> FALSE, isValid |-> FALSE]

VerIdle ==
    [pc |-> "idle", hit |-> FALSE, fetches |-> 0, response |-> "none",
     vk |-> NoKey,
     verifierCalls |-> 0, vkPassed |-> NoKey,
     result |-> NoVerdict, error |-> "none"]

VerCall_NoCacheCheck(v) ==
    /\ ver[v].pc = "idle"
    /\ ver' = [ver EXCEPT ![v] =
                 [@ EXCEPT !.pc = "awaitFetch", !.fetches = @ + 1]]
    /\ UNCHANGED <<ev, gen, vkCache, codec, tr, chain, game>>

\* verifyProof enters loadVerificationKey: a cached key is returned at once,
\* otherwise fetch(VK_PATH) is issued
VerCall(v) ==
    /\ ver[v].pc = "idle"
    /\ IF vkCache # NoKey
       THEN ver' = [ver EXCEPT ![v] =
                      [@ EXCEPT !.pc = "haveKey", !.hit = TRUE,
                                !.vk = vkCache]]
       ELSE ver' = [ver EXCEPT ![v] =
                      [@ EXCEPT !.pc = "awaitFetch", !.fetches = @ + 1]]
    /\ UNCHANGED <<ev, gen, vkCache, codec, tr, chain, game>>

\* response.ok as the call sees it
ResponseStatus(ok) == IF ok THEN "ok" ELSE "notOk"

VerFetchResolves_IgnoresStatus(v, ok) ==
    /\ ver[v].pc = "awaitFetch"
    /\ ver' = [ver EXCEPT ![v] =
                 [@ EXCEPT !.pc = "awaitJson",
                           !.response = ResponseStatus(ok)]]
    /\ UNCHANGED <<ev, gen, vkCache, codec, tr, chain, game>>

\* the fetch settles with a response: not ok throws, ok reads the body
VerFetchResolves(v, ok) ==
    /\ ver[v].pc = "awaitFetch"
    /\ IF ~ok
       THEN ver' = [ver EXCEPT ![v] =
                      [@ EXCEPT !.pc = "rejected",
                                !.response = ResponseStatus(ok),
                                !.error = VkLoadErrorMessage]]
       ELSE ver' = [ver EXCEPT ![v] =
                      [@ EXCEPT !.pc = "awaitJson",
                                !.response = ResponseStatus(ok)]]
    /\ UNCHANGED <<ev, gen, vkCache, codec, tr, chain, game>>

VerFetchRejects_CachesFailure(v) ==
    /\ ver[v].pc = "awaitFetch"
    /\ vkCache' = FetchErrorMessage
    /\ ver' = [ver EXCEPT ![v] =
                 [@ EXCEPT !.pc = "rejected", !.error = FetchErrorMessage]]
    /\ UNCHANGED <<ev, gen, codec, tr, chain, game>>

\* the fetch itself rejects (network failure)
VerFetchRejects(v) ==
    /\ ver[v].pc = "awaitFetch"
    /\ ver' = [ver EXCEPT ![v] =
                 [@ EXCEPT !.pc = "rejected", !.error = FetchErrorMessage]]
    /\ UNCHANGED <<ev, gen, vkCache, codec, tr, chain, game>>

VerJsonResolves_NoCacheWrite(v, body) ==
    /\ ver[v].pc = "awaitJson"
    /\ ver' = [ver EXCEPT ![v] = [@ EXCEPT !.pc = "haveKey", !.vk = body]]
    /\ UNCHANGED <<ev, gen, vkCache, codec, tr, chain, game>>

\* vkCache = await response.json(); return vkCache
VerJsonResolves(v, body) ==
    /\ ver[v].pc = "awaitJson"
    /\ vkCache' = body
    /\ ver' = [ver EXCEPT ![v] = [@ EXCEPT !.pc = "haveKey", !.vk = body]]
    /\ UNCHANGED <<ev, gen, codec, tr, chain, game>>

VerJsonRejects_ClearsCache(v) ==
    /\ ver[v].pc = "awaitJson"
    /\ vkCache' = NoKey
    /\ ver' = [ver EXCEPT ![v] =
                 [@ EXCEPT !.pc = "rejected", !.error = JsonErrorMessage]]
    /\ UNCHANGED <<ev, gen, codec, tr, chain, game>>

\* response.json() rejects: vkCache is not assigned
VerJsonRejects(v) ==
    /\ ver[v].pc = "awaitJson"
    /\ ver' = [ver EXCEPT ![v] =
                 [@ EXCEPT !.pc = "rejected", !.error = JsonErrorMessage]]
    /\ UNCHANGED <<ev, gen, vkCache, codec, tr, chain, game>>

\* const vk = await loadVerificationKey() completes and
\* snarkjs.groth16.verify(vk, publicSignals, proof) is invoked
VerInvokeVerifier(v) ==
    /\ ver[v].pc = "haveKey"
    /\ ver' = [ver EXCEPT ![v] =
                 [@ EXCEPT !.pc = "awaitVerify",
                           !.verifierCalls = @ + 1,
                           !.vkPassed = ver[v].vk]]
    /\ UNCHANGED <<ev, gen, vkCache, codec, tr, chain, game>>

\* the verifier answers: verifyProof returns isValid
VerVerifierResolves(v, isValid) ==
    /\ ver[v].pc = "awaitVerify"
    /\ ver' = [ver EXCEPT ![v] =
                 [@ EXCEPT !.pc = "resolved",
                           !.result = [present |-> TRUE, isValid |-> isValid]]]
    /\ UNCHANGED <<ev, gen, vkCache, codec, tr, chain, game>>

\* the verifier rejects: verifyProof's promise rejects
VerVerifierRejects(v) ==
    /\ ver[v].pc = "awaitVerify"
    /\ ver' = [ver EXCEPT ![v] =
                 [@ EXCEPT !.pc = "rejected", !.error = VerifierErrorMessage]]
    /\ UNCHANGED <<ev, gen, vkCache, codec, tr, chain, game>>

\* the caller has consumed a settled verifyProof promise; the slot is free
\* for the next call
VerSettled(v) ==
    /\ ver[v].pc \in {"resolved", "rejected"}
    /\ ver' = [ver EXCEPT ![v] = VerIdle]
    /\ UNCHANGED <<ev, gen, vkCache, codec, tr, chain, game>>

----------------------------------------------------------------------------
(* Decimal strings and BigInt arithmetic.  A decimal string is a sequence  *)
(* of characters.  A BigInt is a sign and a magnitude; the magnitude is a  *)
(* sequence of limbs in base LimbBase, most significant first, without     *)
(* leading zero limbs (zero is <<0>>).                                     *)

DigitChars == <<"0", "1", "2", "3", "4", "5", "6", "7", "8", "9">>

DigitValue(ch) == (CHOOSE i \in 1..10 : DigitChars[i] = ch) - 1

\* six decimal digits to a limb
LimbBase == 1000000

RECURSIVE StripLeadingZeros(_)
StripLeadingZeros(limbs) ==
    IF limbs = <<>> THEN <<0>>
    ELSE IF Len(limbs) > 1 /\ limbs[1] = 0
         THEN StripLeadingZeros(Tail(limbs))
         ELSE limbs

\* the magnitude written by a sequence of digit characters
ParseDigits(body) ==
    LET n == Len(body)
        count == (n + 5) \div 6
        D(p) == IF p >= 1 THEN DigitValue(body[p]) ELSE 0
        LimbAt(j) ==
            LET e == n - 6 * (count - j)
            IN  D(e - 5) * 100000 + D(e - 4) * 10000 + D(e - 3) * 1000
                  + D(e - 2) * 100 + D(e - 1) * 10 + D(e)
    IN  StripLeadingZeros([j \in 1..count |-> LimbAt(j)])

\* BigInt(decimal) for an optional minus sign followed by digits
BigInt(decimal) ==
    LET neg == Len(decimal) > 0 /\ decimal[1] = "-"
        body == IF neg THEN Tail(decimal) ELSE decimal
        mag == ParseDigits(body)
    IN  [neg |-> neg /\ mag # <<0>>, mag |-> mag]

\* quotient and remainder of a magnitude by 256, by long division
\* (binding a value through a one-element set makes TLC compute it once)
RECURSIVE LongDiv256(_, _, _, _)
LongDiv256(limbs, i, rem, quot) ==
    IF i > Len(limbs)
    THEN [q |-> StripLeadingZeros(quot), r |-> rem]
    ELSE CHOOSE res \in
             {LongDiv256(limbs, i + 1, cur % 256, Append(quot, cur \div 256)) :
                 cur \in {rem * LimbBase + limbs[i]}} : TRUE

DivMod256(mag) ==
    CHOOSE res \in {LongDiv256(m, 1, 0, <<>>) : m \in {mag}} : TRUE

\* magnitude + 1
RECURSIVE Increment(_)
Increment(mag) ==
    IF mag = <<>> THEN <<1>>
    ELSE LET n == Len(mag)
         IN  IF mag[n] < LimbBase - 1
             THEN [mag EXCEPT ![n] = @ + 1]
             ELSE Append(Increment(SubSeq(mag, 1, n - 1)), 0)

AndFF_Magnitude(num) == DivMod256(num.mag).r

\* num & 0xFFn: the low eight bits of the two's complement of num
AndFF(num) ==
    LET r == DivMod256(num.mag).r
    IN  IF num.neg THEN (256 - r) % 256 ELSE r

\* num >> 8n: floor(num / 256), an arithmetic shift for negative num
Shr8(num) ==
    LET d == DivMod256(num.mag)
    IN  IF num.neg
        THEN [neg |-> TRUE, mag |-> IF d.r = 0 THEN d.q ELSE Increment(d.q)]
        ELSE [neg |-> FALSE, mag |-> d.q]

----------------------------------------------------------------------------
(* The byte codec of src/unnamed/part_009.  A Uint8Array is a sequence of  *)
(* bytes; JavaScript index i is index i + 1 here.                          *)

\* new Uint8Array(n)
ZeroBytes(n) == [i \in 1..n |-> 0]

\* result.set(bytes, offset)
SetAt(result, bytes, offset) ==
    [i \in 1..Len(result) |->
        IF i > offset /\ i <= offset + Len(bytes)
        THEN bytes[i - offset]
        ELSE result[i]]

\* for (let i = 31; i >= 0; i--) { bytes[i] = Number(num & 0xFFn); num >>= 8n }
RECURSIVE ByteLoop(_, _, _)
ByteLoop(i, num, bytes) ==
    IF i < 0 THEN bytes
    ELSE CHOOSE res \in
             {ByteLoop(i - 1, shifted, written) :
                 shifted \in {Shr8(num)},
                 written \in {[bytes EXCEPT ![i + 1] = AndFF(num)]}} : TRUE

RECURSIVE ByteLoop_LittleEndian(_, _, _)
ByteLoop_LittleEndian(i, num, bytes) ==
    IF i < 0 THEN bytes
    ELSE CHOOSE res \in
             {ByteLoop_LittleEndian(i - 1, shifted, written) :
                 shifted \in {Shr8(num)},
                 written \in {[bytes EXCEPT ![32 - i] = AndFF(num)]}} : TRUE

decimalToBytes32_LittleEndian(decimal) ==
    CHOOSE res \in {ByteLoop_LittleEndian(31, num, ZeroBytes(32)) :
                       num \in {BigInt(decimal)}} : TRUE

decimalToBytes32(decimal) ==
    CHOOSE res \in {ByteLoop(31, num, ZeroBytes(32)) :
                       num \in {BigInt(decimal)}} : TRUE

g1PointToBytes_YThenX(point) ==
    LET x == decimalToBytes32(point[1])
        y == decimalToBytes32(point[2])
    IN  SetAt(SetAt(ZeroBytes(64), y, 0), x, 32)

g1PointToBytes(point) ==
    LET x == decimalToBytes32(point[1])
        y == decimalToBytes32(point[2])
    IN  SetAt(SetAt(ZeroBytes(64), x, 0), y, 32)

g2PointToBytes_NoSwap(point) ==
    LET xReal == decimalToBytes32(point[1][1])
        xImag == decimalToBytes32(point[1][2])
        yReal == decimalToBytes32(point[2][1])
        yImag == decimalToBytes32(point[2][2])
    IN  SetAt(SetAt(SetAt(SetAt(ZeroBytes(128), xReal, 0), xImag, 32),
                    yReal, 64), yImag, 96)

g2PointToBytes(point) ==
    LET xReal == decimalToBytes32(point[1][1])
        xImag == decimalToBytes32(point[1][2])
        yReal == decimalToBytes32(point[2][1])
        yImag == decimalToBytes32(point[2][2])
    IN  SetAt(SetAt(SetAt(SetAt(ZeroBytes(128), xImag, 0), xReal, 32),
                    yImag, 64), yReal, 96)

convertSnarkjsProofToContract_SwapAC(proof) ==
    [a |-> g1PointToBytes(proof.pi_c),
     b |-> g2PointToBytes(proof.pi_b),
     c |-> g1PointToBytes(proof.pi_a)]

convertSnarkjsProofToContract(proof) ==
    [a |-> g1PointToBytes(proof.pi_a),
     b |-> g2PointToBytes(proof.pi_b),
     c |-> g1PointToBytes(proof.pi_c)]

----------------------------------------------------------------------------
(* Inputs of the codec.                                                    *)

\* the decimal string of a small natural number
RECURSIVE NatToDecimal(_)
NatToDecimal(n) ==
    IF n < 10 THEN <<DigitChars[n + 1]>>
    ELSE Append(NatToDecimal(n \div 10), DigitChars[(n % 10) + 1])

\* small values 0..MaxSmallDecimal and -1..-MaxSmallDecimal are enumerated
MaxSmallDecimal == 300

\* 2^256 - 1
Dec_2p256m1 ==
    <<"1","1","5","7","9","2","0","8","9","2","3","7","3","1","6","1","9",
      "5","4","2","3","5","7","0","9","8","5","0","0","8","6","8","7","9",
      "0","7","8","5","3","2","6","9","9","8","4","6","6","5","6","4","0",
      "5","6","4","0","3","9","4","5","7","5","8","4","0","0","7","9","1",
      "3","1","2","9","6","3","9","9","3","5">>

\* 2^256
Dec_2p256 ==
    <<"1","1","5","7","9","2","0","8","9","2","3","7","3","1","6","1","9",
      "5","4","2","3","5","7","0","9","8","5","0","0","8","6","8","7","9",
      "0","7","8","5","3","2","6","9","9","8","4","6","6","5","6","4","0",
      "5","6","4","0","3","9","4","5","7","5","8","4","0","0","7","9","1",
      "3","1","2","9","6","3","9","9","3","6">>

\* 2^256 + 1
Dec_2p256p1 ==
    <<"1","1","5","7","9","2","0","8","9","2","3","7","3","1","6","1","9",
      "5","4","2","3","5","7","0","9","8","5","0","0","8","6","8","7","9",
      "0","7","8","5","3","2","6","9","9","8","4","6","6","5","6","4","0",
      "5","6","4","0","3","9","4","5","7","5","8","4","0","0","7","9","1",
      "3","1","2","9","6","3","9","9","3","7">>

\* 2^255
Dec_2p255 ==
    <<"5","7","8","9","6","0","4","4","6","1","8","6","5","8","0","9","7",
      "7","1","1","7","8","5","4","9","2","5","0","4","3","4","3","9","5",
      "3","9","2","6","6","3","4","9","9","2","3","3","2","8","2","0","2",
      "8","2","0","1","9","7","2","8","7","9","2","0","0","3","9","5","6",
      "5","6","4","8","1","9","9","6","8">>

\* 2^128
Dec_2p128 ==
    <<"3","4","0","2","8","2","3","6","6","9","2","0","9","3","8","4","6",
      "3","4","6","3","3","7","4","6","0","7","4","3","1","7","6","8","2",
      "1","1","4","5","6">>

\* the BN254 base field modulus minus one
Dec_BaseFieldMax ==
    <<"2","1","8","8","8","2","4","2","8","7","1","8","3","9","2","7","5",
      "2","2","2","2","4","6","4","0","5","7","4","5","2","5","7","2","7",
      "5","0","8","8","6","9","6","3","1","1","1","5","7","2","9","7","8",
      "2","3","6","6","2","6","8","9","0","3","7","8","9","4","6","4","5",
      "2","2","6","2","0","8","5","8","2">>

\* the BN254 scalar field modulus minus one
Dec_ScalarFieldMax ==
    <<"2","1","8","8","8","2","4","2","8","7","1","8","3","9","2","7","5",
      "2","2","2","2","4","6","4","0","5","7","4","5","2","5","7","2","7",
      "5","0","8","8","5","4","8","3","6","4","4","0","0","4","1","6","0",
      "3","4","3","4","3","6","9","8","2","0","4","1","8","6","5","7","5",
      "8","0","8","4","9","5","6","1","6">>

\* 2 * 2^256 + 258
Dec_TwoWraps ==
    <<"2","3","1","5","8","4","1","7","8","4","7","4","6","3","2","3","9",
      "0","8","4","7","1","4","1","9","7","0","0","1","7","3","7","5","8",
      "1","5","7","0","6","5","3","9","9","6","9","3","3","1","2","8","1",
      "1","2","8","0","7","8","9","1","5","1","6","8","0","1","5","8","2",
      "6","2","5","9","2","8","0","1","3","0">>

\* 3 * 2^256 - 1
Dec_ThreeWrapsM1 ==
    <<"3","4","7","3","7","6","2","6","7","7","1","1","9","4","8","5","8",
      "6","2","7","0","7","1","2","9","5","5","0","2","6","0","6","3","7",
      "2","3","5","5","9","8","0","9","9","5","3","9","9","6","9","2","1",
      "6","9","2","1","1","8","3","7","2","7","5","2","0","2","3","7","3",
      "9","3","8","8","9","1","9","8","0","7">>

Negated(decimal) == <<"-">> \o decimal

LargeDecimals ==
    {Dec_2p256m1, Dec_2p255, Dec_2p128, Dec_BaseFieldMax, Dec_ScalarFieldMax}

OversizedDecimals ==
    {Dec_2p256, Dec_2p256p1, Dec_TwoWraps, Dec_ThreeWrapsM1}

CodecDecimals ==
    {NatToDecimal(n) : n \in 0..MaxSmallDecimal}
      \cup {Negated(NatToDecimal(n)) : n \in 1..MaxSmallDecimal}
      \cup LargeDecimals \cup OversizedDecimals
      \cup {Negated(d) : d \in LargeDecimals \cup {Dec_2p256}}
      \cup {<<"0", "0", "2", "5", "5">>}

\* field elements the points are built from
FieldElements ==
    {NatToDecimal(1), NatToDecimal(2), NatToDecimal(3), NatToDecimal(4),
     Dec_BaseFieldMax}

\* the third, projective element snarkjs appends to a point
G1Tails == {<<>>, <<NatToDecimal(1)>>, <<NatToDecimal(0)>>}
G2Tails == {<<>>, <<<<NatToDecimal(1), NatToDecimal(0)>>>>}

G1Points == {<<x, y>> \o t : x \in FieldElements, y \in FieldElements,
                             t \in G1Tails}

G2Elements == {NatToDecimal(1), NatToDecimal(2), NatToDecimal(3),
               NatToDecimal(4)}

G2Points == {<<<<xr, xi>>, <<yr, yi>>>> \o t :
                xr \in G2Elements, xi \in G2Elements,
                yr \in G2Elements, yi \in G2Elements, t \in G2Tails}

\* Groth16 proofs as snarkjs emits them
ProofPointsA ==
    {<<NatToDecimal(1), NatToDecimal(2), NatToDecimal(1)>>,
     <<Dec_BaseFieldMax, NatToDecimal(7), NatToDecimal(1)>>,
     <<NatToDecimal(0), Dec_2p128, NatToDecimal(1)>>,
     <<NatToDecimal(300), NatToDecimal(255), NatToDecimal(1)>>}
ProofPointsB ==
    {<<<<NatToDecimal(1), NatToDecimal(2)>>,
       <<NatToDecimal(3), NatToDecimal(4)>>,
       <<NatToDecimal(1), NatToDecimal(0)>>>>,
     <<<<Dec_ScalarFieldMax, NatToDecimal(9)>>,
       <<NatToDecimal(0), Dec_BaseFieldMax>>,
       <<NatToDecimal(1), NatToDecimal(0)>>>>,
     <<<<NatToDecimal(2), NatToDecimal(1)>>,
       <<NatToDecimal(4), NatToDecimal(3)>>,
       <<NatToDecimal(1), NatToDecimal(0)>>>>,
     <<<<NatToDecimal(256), Dec_2p255>>,
       <<NatToDecimal(65), NatToDecimal(66)>>,
       <<NatToDecimal(1), NatToDecimal(0)>>>>}
ProofPointsC ==
    {<<NatToDecimal(5), NatToDecimal(6), NatToDecimal(1)>>,
     <<NatToDecimal(12), Dec_ScalarFieldMax, NatToDecimal(1)>>,
     <<NatToDecimal(1), NatToDecimal(2), NatToDecimal(1)>>,
     <<Dec_2p256m1, NatToDecimal(0), NatToDecimal(1)>>}

Groth16Proofs ==
    {[pi_a |-> a, pi_b |-> b, pi_c |-> c,
      protocol |-> <<"g", "r", "o", "t", "h", "1", "6">>,
      curve |-> <<"b", "n", "1", "2", "8">>] :
        a \in ProofPointsA, b \in ProofPointsB, c \in ProofPointsC}

----------------------------------------------------------------------------
(* Codec harness: one call of a codec function and what it returned.  The  *)
(* functions are pure, so one call per behaviour covers every input.       *)

CodecIdle == [op |-> "none", arg |-> <<>>, out |-> <<>>]

CallDecimalToBytes32(decimal) ==
    /\ codec.op = "none"
    /\ codec' = [op |-> "decimalToBytes32", arg |-> decimal,
                 out |-> decimalToBytes32(decimal)]
    /\ UNCHANGED <<ev, gen, vkCache, ver, tr, chain, game>>

CallG1PointToBytes(point) ==
    /\ codec.op = "none"
    /\ codec' = [op |-> "g1PointToBytes", arg |-> point,
                 out |-> g1PointToBytes(point)]
    /\ UNCHANGED <<ev, gen, vkCache, ver, tr, chain, game>>

CallG2PointToBytes(point) ==
    /\ codec.op = "none"
    /\ codec' = [op |-> "g2PointToBytes", arg |-> point,
                 out |-> g2PointToBytes(point)]
    /\ UNCHANGED <<ev, gen, vkCache, ver, tr, chain, game>>

CallConvertSnarkjsProofToContract(proof) ==
    /\ codec.op = "none"
    /\ codec' = [op |-> "convertSnarkjsProofToContract", arg |-> proof,
                 out |-> convertSnarkjsProofToContract(proof)]
    /\ UNCHANGED <<ev, gen, vkCache, ver, tr, chain, game>>

----------------------------------------------------------------------------
(* JSON transport of a proof: serializeProof is JSON.stringify and         *)
(* deserializeProof is JSON.parse.  A JavaScript value is a string, an     *)
(* array or an object whose keys keep their insertion order; a JSON text   *)
(* is a sequence of characters.  Proofs hold strings, arrays and objects   *)
(* only, and JSON.stringify emits no white space, so numbers, literals and *)
(* white space are left out of the grammar.                                *)

JStr(chars) == [t |-> "str", s |-> chars, keys |-> <<>>, items |-> <<>>]
JArr(items) == [t |-> "arr", s |-> <<>>, keys |-> <<>>, items |-> items]
JObj(keys, items) == [t |-> "obj", s |-> <<>>, keys |-> keys, items |-> items]

QuoteChar == "\""
BackslashChar == "\\"

NeedsEscape(ch) == ch \in {QuoteChar, BackslashChar}

\* the characters of a string as they appear between the quotes
Escape(chars) ==
    IF \A i \in 1..Len(chars) : ~NeedsEscape(chars[i])
    THEN chars
    ELSE LET n == Len(chars)
             Start(i) == (i - 1)
                 + Cardinality({j \in 1..(i - 1) : NeedsEscape(chars[j])})
             Width(i) == IF NeedsEscape(chars[i]) THEN 2 ELSE 1
         IN  [k \in 1..Start(n + 1) |->
                LET i == CHOOSE i \in 1..n :
                             Start(i) < k /\ k <= Start(i) + Width(i)
                IN  IF NeedsEscape(chars[i]) /\ k = Start(i) + 1
                    THEN BackslashChar
                    ELSE chars[i]]

\* the number of backslashes that end right before position j
BackslashRun(text, j) ==
    IF j <= 1 \/ text[j - 1] # BackslashChar
    THEN 0
    ELSE LET first == CHOOSE f \in 1..(j - 1) :
                          /\ \A q \in f..(j - 1) : text[q] = BackslashChar
                          /\ (f = 1 \/ text[f - 1] # BackslashChar)
         IN  j - first

\* the character at j is escaped by a backslash before it
EscapedAt(text, j) == BackslashRun(text, j) % 2 = 1

\* the string between the quotes, escapes undone
Unescape(chars) ==
    IF \A i \in 1..Len(chars) : chars[i] # BackslashChar
    THEN chars
    ELSE LET kept == {p \in 1..Len(chars) :
                        ~(chars[p] = BackslashChar /\ ~EscapedAt(chars, p))}
         IN  [k \in 1..Cardinality(kept) |->
                chars[CHOOSE p \in kept :
                          Cardinality({q \in kept : q < p}) = k - 1]]

RECURSIVE Stringify(_)
RECURSIVE StringifyItems(_, _)
RECURSIVE StringifyEntries(_, _, _)

StringifyItems(items, i) ==
    IF i > Len(items) THEN <<>>
    ELSE Stringify(items[i])
           \o (IF i < Len(items) THEN <<",">> ELSE <<>>)
           \o StringifyItems(items, i + 1)

StringifyEntries(keys, items, i) ==
    IF i > Len(items) THEN <<>>
    ELSE <<QuoteChar>> \o Escape(keys[i]) \o <<QuoteChar, ":">>
           \o Stringify(items[i])
           \o (IF i < Len(items) THEN <<",">> ELSE <<>>)
           \o StringifyEntries(keys, items, i + 1)

\* JSON.stringify(value)
Stringify(value) ==
    CASE value.t = "str" ->
           <<QuoteChar>> \o Escape(value.s) \o <<QuoteChar>>
      [] value.t = "arr" ->
           <<"[">> \o StringifyItems(value.items, 1) \o <<"]">>
      [] value.t = "obj" ->
           <<"{">> \o StringifyEntries(value.keys, value.items, 1) \o <<"}">>

\* the position of the quote that closes the string opened at i
StringEnd(text, i) ==
    LET closing == {j \in (i + 1)..Len(text) :
                      text[j] = QuoteChar /\ ~EscapedAt(text, j)}
    IN  CHOOSE j \in closing : \A k \in closing : j <= k

RECURSIVE ParseValue(_, _)
RECURSIVE ParseItems(_, _, _)
RECURSIVE ParseEntries(_, _, _, _)

\* the elements of an array from position i on, up to the closing bracket
ParseItems(text, i, acc) ==
    CHOOSE res \in
        {IF text[r.next] = ","
         THEN ParseItems(text, r.next + 1, Append(acc, r.v))
         ELSE [v |-> JArr(Append(acc, r.v)), next |-> r.next + 1] :
            r \in {ParseValue(text, i)}} : TRUE

\* the entries of an object from position i on, up to the closing brace
ParseEntries(text, i, keys, items) ==
    CHOOSE res \in
        {IF text[r.next] = ","
         THEN ParseEntries(text, r.next + 1, Append(keys, k.v.s),
                           Append(items, r.v))
         ELSE [v |-> JObj(Append(keys, k.v.s), Append(items, r.v)),
               next |-> r.next + 1] :
            k \in {ParseValue(text, i)},
            r \in {ParseValue(text, StringEnd(text, i) + 2)}} : TRUE

\* the value that starts at position i, and the position after it
ParseValue(text, i) ==
    CASE text[i] = QuoteChar ->
           LET j == StringEnd(text, i)
           IN  [v |-> JStr(Unescape(SubSeq(text, i + 1, j - 1))),
                next |-> j + 1]
      [] text[i] = "[" ->
           IF text[i + 1] = "]"
           THEN [v |-> JArr(<<>>), next |-> i + 2]
           ELSE ParseItems(text, i + 1, <<>>)
      [] text[i] = "{" ->
           IF text[i + 1] = "}"
           THEN [v |-> JObj(<<>>, <<>>), next |-> i + 2]
           ELSE ParseEntries(text, i + 1, <<>>, <<>>)

\* JSON.parse(text)
Parse(text) == ParseValue(text, 1).v

\* a snarkjs Groth16 proof as the JavaScript object the prover builds
ProofObject(proof) ==
    LET Strs(point) == JArr([i \in 1..Len(point) |-> JStr(point[i])])
        Pairs(point) == JArr([i \in 1..Len(point) |-> Strs(point[i])])
    IN  JObj(<<<<"p", "i", "_", "a">>, <<"p", "i", "_", "b">>,
               <<"p", "i", "_", "c">>,
               <<"p", "r", "o", "t", "o", "c", "o", "l">>,
               <<"c", "u", "r", "v", "e">>>>,
             <<Strs(proof.pi_a), Pairs(proof.pi_b), Strs(proof.pi_c),
               JStr(proof.protocol), JStr(proof.curve)>>)

serializeProof_DropsLastField(proof) ==
    Stringify(JObj(SubSeq(proof.keys, 1, Len(proof.keys) - 1),
                   SubSeq(proof.items, 1, Len(proof.items) - 1)))

\* serializeProof(proof): JSON.stringify(proof)
serializeProof(proof) == Stringify(proof)

deserializeProof_PointsOnly(serialized) ==
    LET value == Parse(serialized)
    IN  JObj(SubSeq(value.keys, 1, 3), SubSeq(value.items, 1, 3))

\* deserializeProof(serialized): JSON.parse(serialized)
deserializeProof(serialized) == Parse(serialized)

----------------------------------------------------------------------------
(* Transport harness: a proof is serialized and the string deserialized.   *)

TrIdle == [stage |-> "none", proof |-> JObj(<<>>, <<>>), serialized |-> <<>>,
           restored |-> JObj(<<>>, <<>>), reserialized |-> <<>>]

\* the sender calls serializeProof on a proof
CallSerializeProof(proof) ==
    /\ tr.stage = "none"
    /\ tr' = [tr EXCEPT !.stage = "serialized",
                        !.proof = ProofObject(proof),
                        !.serialized = serializeProof(ProofObject(proof))]
    /\ UNCHANGED <<ev, gen, vkCache, ver, codec, chain, game>>

\* the receiver calls deserializeProof on the string it was sent
CallDeserializeProof ==
    /\ tr.stage = "serialized"
    /\ tr' = [tr EXCEPT !.stage = "deserialized",
                        !.restored = deserializeProof(tr.serialized)]
    /\ UNCHANGED <<ev, gen, vkCache, ver, codec, chain, game>>

\* the receiver forwards the proof: serializeProof on the value that
\* deserializeProof returned
CallSerializeRestored ==
    /\ tr.stage = "deserialized"
    /\ tr' = [tr EXCEPT !.stage = "reserialized",
                        !.reserialized = serializeProof(tr.restored)]
    /\ UNCHANGED <<ev, gen, vkCache, ver, codec, chain, game>>

----------------------------------------------------------------------------
(* DivineWrathBlockchainService.submitClaim and submitClaimRelayed of      *)
(* src/unnamed/part_009: the proof is converted, the contract message is   *)
(* assembled, and the transaction is built, dated and sent.                *)

\* the service's own CLAIM_TYPE_MAP (part_009)
CLAIM_TYPE_MAP_Service_Renumbered == [row |-> 1, column |-> 2, adjacent |-> 3]

CLAIM_TYPE_MAP_Service == [row |-> 0, column |-> 1, adjacent |-> 2]

\* the contract binding's enum ClaimType
ClaimType == [Row |-> 0, Column |-> 1, Adjacent |-> 2]

\* CLAIM_TYPE_MAP[claimType] in the service, as JavaScript evaluates it
ServiceClaimTypeNumber(claimType) ==
    IF claimType \in DOMAIN CLAIM_TYPE_MAP_Service
    THEN CLAIM_TYPE_MAP_Service[claimType]
    ELSE Undefined

\* claim values the callers send: 0..2 for a row or column, 1..9 for adjacent
SubmitClaimValues == GenValues \cup (1..9)

\* proofs handed to the service
SubmitProofs ==
    {proof \in Groth16Proofs :
        /\ proof.pi_b = <<<<NatToDecimal(1), NatToDecimal(2)>>,
                          <<NatToDecimal(3), NatToDecimal(4)>>,
                          <<NatToDecimal(1), NatToDecimal(0)>>>>
        /\ proof.pi_a[1] = NatToDecimal(1)
        /\ proof.pi_c[1] \in {NatToDecimal(5), NatToDecimal(12)}}

ClaimRejectedMessage == "Claim rejected: invalid proof"
TransactionErrorMessage == "transaction failed"

NoMessage ==
    [claim_type |-> Undefined, claim_value |-> 0, expected_result |-> FALSE,
     proof |-> [a |-> <<>>, b |-> <<>>, c |-> <<>>]]

ChainIdle ==
    [pc |-> "idle", method |-> "none", claimType |-> "row", claimValue |-> 0,
     expectedResult |-> FALSE,
     snarkjsProof |-> [pi_a |-> <<>>, pi_b |-> <<>>, pi_c |-> <<>>,
                       protocol |-> <<>>, curve |-> <<>>],
     message |-> NoMessage, returned |-> "none", error |-> "none"]

\* the argument object of client.submit_claim / client.submit_claim_relayed
ContractMessage(claimType, claimValue, expectedResult, snarkjsProof) ==
    [claim_type |-> ServiceClaimTypeNumber(claimType),
     claim_value |-> claimValue,
     expected_result |-> expectedResult,
     proof |-> convertSnarkjsProofToContract(snarkjsProof)]

\* entry of either method up to the first await: the proof is converted and
\* the contract method is invoked with the message
SubmitEntry(method, claimType, claimValue, expectedResult, snarkjsProof) ==
    /\ chain.pc = "idle"
    /\ chain' = [chain EXCEPT
                   !.pc = "awaitTx", !.method = method,
                   !.claimType = claimType, !.claimValue = claimValue,
                   !.expectedResult = expectedResult,
                   !.snarkjsProof = snarkjsProof,
                   !.message = ContractMessage(claimType, claimValue,
                                               expectedResult, snarkjsProof)]
    /\ UNCHANGED <<ev, gen, vkCache, ver, codec, tr, game>>

submitClaim(claimType, claimValue, expectedResult, snarkjsProof) ==
    SubmitEntry("submit_claim", claimType, claimValue, expectedResult,
                snarkjsProof)

submitClaimRelayed(claimType, claimValue, expectedResult, snarkjsProof) ==
    SubmitEntry("submit_claim_relayed", claimType, claimValue, expectedResult,
                snarkjsProof)

\* an awaited step resolves: the transaction is assembled, then
\* calculateValidUntilLedger answers
SubmitStepResolves ==
    /\ chain.pc \in {"awaitTx", "awaitLedger"}
    /\ chain' = [chain EXCEPT !.pc = IF chain.pc = "awaitTx"
                                     THEN "awaitLedger" ELSE "awaitSend"]
    /\ UNCHANGED <<ev, gen, vkCache, ver, codec, tr, game>>

\* an awaited step rejects: nothing catches it, the method's promise rejects
SubmitStepRejects ==
    /\ chain.pc \in {"awaitTx", "awaitLedger", "awaitSend"}
    /\ chain' = [chain EXCEPT !.pc = "rejected",
                              !.error = TransactionErrorMessage]
    /\ UNCHANGED <<ev, gen, vkCache, ver, codec, tr, game>>

\* signAndSendViaLaunchtube answers: an Ok result is unwrapped and returned,
\* anything else throws
SubmitSent(isOk, value) ==
    /\ chain.pc = "awaitSend"
    /\ IF isOk
       THEN chain' = [chain EXCEPT !.pc = "resolved",
                                   !.returned = IF value THEN "true"
                                                ELSE "false"]
       ELSE chain' = [chain EXCEPT !.pc = "rejected",
                                   !.error = ClaimRejectedMessage]
    /\ UNCHANGED <<ev, gen, vkCache, ver, codec, tr, game>>

----------------------------------------------------------------------------
(* Game.handleClaim of src/src/components/Game.tsx.  The component's state *)
(* lives in React; handleClaim is a closure over the values of the last    *)
(* render (view), and the part after its await runs when the generation    *)
(* settles.  Two players are in the room: the claimer "me" and "other".    *)

\* JavaScript null in an id or a message, and in a number-or-null field
\* (no position and no value of the panel is 0)
NullId == "null"
NullNumber == 0

PlayerIds == {"me", "other"}

\* claim types and values the buttons of ClaimPanel set
PanelClaimTypes == {"row", "column", "adjacent"}
PanelValues == {1, 2, 3}

JsNumber(n) == [t |-> "number", n |-> n]
JsTrue == [t |-> "boolean", n |-> 1]

TargetErrorMessage == "Target player not found or has no position"
UnsupportedErrorMessage == "Unsupported claim type"

HandleCalls == GenCalls

HandleIdle ==
    [pc |-> "idle", selectedClaimType |-> NullId, valueToSubmit |-> JsTrue,
     selectedTargetId |-> NullId, targetPosition |-> NullNumber,
     claimValueForCircuit |-> 0]

BlankView ==
    [selectedTargetId |-> NullId, selectedClaimType |-> NullId,
     selectedClaimValue |-> NullNumber, isGeneratingProof |-> FALSE,
     isCurrentClaimTaken |-> FALSE]

GameIdle ==
    [mounted |-> FALSE, myPosition |-> NullNumber,
     otherPosition |-> NullNumber,
     selectedTargetId |-> NullId, selectedClaimType |-> NullId,
     selectedClaimValue |-> NullNumber,
     isGeneratingProof |-> FALSE, proofError |-> NullId,
     view |-> BlankView,
     calls |-> [h \in HandleCalls |-> HandleIdle],
     submitted |-> <<>>]

\* the selections the panel can hold once its effects have run: a value only
\* with a row or column claim, and never the claimer as an adjacent target
PanelSelections ==
    {sel \in [selectedTargetId : PlayerIds, selectedClaimType : PanelClaimTypes,
              selectedClaimValue : PanelValues \cup {NullNumber}] :
        sel.selectedClaimType = "adjacent" =>
            /\ sel.selectedClaimValue = NullNumber
            /\ sel.selectedTargetId # "me"}

\* rooms: the claimer is alive, the other mortal is alive on another cell or
\* dead (position null)
Rooms ==
    {room \in [myPosition : 1..9, otherPosition : (1..9) \cup {NullNumber}] :
        room.myPosition # room.otherPosition}

\* room.players.find(p => p.id === id)?.position
PlayerPosition(id) ==
    IF id = "me" THEN game.myPosition
    ELSE IF id = "other" THEN game.otherPosition
    ELSE NullNumber

\* the values a render hands to the handlers it creates
RenderedView(taken) ==
    [selectedTargetId |-> game.selectedTargetId,
     selectedClaimType |-> game.selectedClaimType,
     selectedClaimValue |-> game.selectedClaimValue,
     isGeneratingProof |-> game.isGeneratingProof,
     isCurrentClaimTaken |->
         /\ game.selectedTargetId # NullId
         /\ game.selectedClaimType # NullId
         /\ taken]

ViewShowsSelection ==
    /\ game.view.selectedTargetId = game.selectedTargetId
    /\ game.view.selectedClaimType = game.selectedClaimType
    /\ game.view.selectedClaimValue = game.selectedClaimValue

\* the component is mounted in a room and renders for the first time
Mount(room) ==
    /\ ~game.mounted
    /\ game' = [game EXCEPT !.mounted = TRUE,
                            !.myPosition = room.myPosition,
                            !.otherPosition = room.otherPosition]
    /\ UNCHANGED <<ev, gen, vkCache, ver, codec, tr, chain>>

\* the player fills in the blank panel: target, claim type and value
UserSelects(sel) ==
    /\ game.mounted
    /\ ViewShowsSelection
    /\ game.selectedTargetId = NullId
    /\ game.selectedClaimType = NullId
    /\ game.selectedClaimValue = NullNumber
    /\ game' = [game EXCEPT !.selectedTargetId = sel.selectedTargetId,
                            !.selectedClaimType = sel.selectedClaimType,
                            !.selectedClaimValue = sel.selectedClaimValue]
    /\ UNCHANGED <<ev, gen, vkCache, ver, codec, tr, chain>>

\* React renders the component again; taken is what isClaimTaken answers
\* for the claims the server has announced
Render(taken) ==
    /\ game.mounted
    /\ game.view # RenderedView(taken)
    /\ game' = [game EXCEPT !.view = RenderedView(taken)]
    /\ UNCHANGED <<ev, gen, vkCache, ver, codec, tr, chain>>

\* valueToSubmit: the claimer's position for an adjacent claim, otherwise
\* selectedClaimValue ?? true
ValueToSubmit(claimType, claimValue, myPosition) ==
    IF claimType = "adjacent" THEN JsNumber(myPosition)
    ELSE IF claimValue = NullNumber THEN JsTrue
    ELSE JsNumber(claimValue)

ClaimValueForCircuit_NoOffset(claimType, claimValue, myPosition) ==
    IF claimType = "adjacent" THEN myPosition
    ELSE IF claimValue = NullNumber THEN 1 ELSE claimValue

\* claimValueForCircuit: (selectedClaimValue ?? 1) - 1 for a row or column,
\* the claimer's position for an adjacent claim
ClaimValueForCircuit(claimType, claimValue, myPosition) ==
    IF claimType = "adjacent" THEN myPosition
    ELSE (IF claimValue = NullNumber THEN 1 ELSE claimValue) - 1

\* handleClaim from its entry to its first await, run by the handler of the
\* last render: the guard, the target lookup, the state updates and the call
\* of generateClaimProof for the target's position
HandleClaim(h) ==
    /\ game.mounted
    /\ game.calls[h].pc = "idle"
    /\ gen[h].pc = "idle"
    /\ LET view == game.view
           targetPosition == PlayerPosition(view.selectedTargetId)
           claimValueForCircuit ==
               ClaimValueForCircuit(view.selectedClaimType,
                                    view.selectedClaimValue, game.myPosition)
           call == [HandleIdle EXCEPT
                      !.selectedClaimType = view.selectedClaimType,
                      !.selectedTargetId = view.selectedTargetId,
                      !.valueToSubmit =
                          ValueToSubmit(view.selectedClaimType,
                                        view.selectedClaimValue,
                                        game.myPosition),
                      !.targetPosition = targetPosition]
       IN  IF \/ view.selectedTargetId = NullId
              \/ view.selectedClaimType = NullId
              \/ view.isCurrentClaimTaken
              \/ view.isGeneratingProof
           THEN /\ game' = [game EXCEPT !.calls[h].pc = "returned"]
                /\ gen' = gen
           ELSE IF targetPosition = NullNumber
           THEN /\ game' = [game EXCEPT
                              !.proofError = TargetErrorMessage,
                              !.calls[h] = [call EXCEPT !.pc = "returned"]]
                /\ gen' = gen
           ELSE IF view.selectedClaimType \notin {"row", "column", "adjacent"}
           THEN /\ game' = [game EXCEPT
                              !.isGeneratingProof = FALSE,
                              !.proofError = UnsupportedErrorMessage,
                              !.calls[h] = [call EXCEPT !.pc = "failed"]]
                /\ gen' = gen
           ELSE /\ GenEntry(h, targetPosition, view.selectedClaimType,
                            claimValueForCircuit)
                /\ game' = [game EXCEPT
                              !.isGeneratingProof = TRUE,
                              !.proofError = NullId,
                              !.calls[h] =
                                  [call EXCEPT
                                     !.pc = "awaitProof",
                                     !.claimValueForCircuit =
                                         claimValueForCircuit]]
    /\ UNCHANGED <<ev, vkCache, ver, codec, tr, chain>>

\* the argument list of onSubmitClaim
Submission(call, result) ==
    [claimType |-> call.selectedClaimType,
     claimValue |-> call.valueToSubmit,
     targetPlayerId |-> call.selectedTargetId,
     zkProof |-> [proof |-> result.proof,
                  publicSignals |-> result.publicSignals,
                  isTrue |-> result.isTrue]]

HandleResumes_SubmitsOnFailure(h) ==
    /\ game.calls[h].pc = "awaitProof"
    /\ gen[h].pc \in {"resolved", "rejected"}
    /\ game' = [game EXCEPT
                  !.submitted =
                      Append(@, Submission(game.calls[h],
                                           [gen[h].result EXCEPT
                                              !.isTrue = FALSE])),
                  !.selectedClaimType = NullId,
                  !.selectedClaimValue = NullNumber,
                  !.selectedTargetId = NullId,
                  !.isGeneratingProof = FALSE,
                  !.calls[h].pc = "submitted"]
    /\ UNCHANGED <<ev, gen, vkCache, ver, codec, tr, chain>>

\* handleClaim after its await: a resolved generation is submitted and the
\* selection reset, a rejected one lands in catch; finally runs in both cases
HandleResumes(h) ==
    /\ game.calls[h].pc = "awaitProof"
    /\ gen[h].pc \in {"resolved", "rejected"}
    /\ IF gen[h].pc = "resolved"
       THEN game' = [game EXCEPT
                       !.submitted =
                           Append(@, Submission(game.calls[h], gen[h].result)),
                       !.selectedClaimType = NullId,
                       !.selectedClaimValue = NullNumber,
                       !.selectedTargetId = NullId,
                       !.isGeneratingProof = FALSE,
                       !.calls[h].pc = "submitted"]
       ELSE game' = [game EXCEPT
                       !.proofError = gen[h].error,
                       !.isGeneratingProof = FALSE,
                       !.calls[h].pc = "failed"]
    /\ UNCHANGED <<ev, gen, vkCache, ver, codec, tr, chain>>

----------------------------------------------------------------------------
(* Specifications                                                          *)

Init ==
    /\ ev = EvIdle
    /\ gen = [c \in GenCalls |-> GenIdle]
    /\ vkCache = NoKey
    /\ ver = [v \in VerCalls |-> VerIdle]
    /\ codec = CodecIdle
    /\ tr = TrIdle
    /\ chain = ChainIdle
    /\ game = GameIdle

NextEval ==
    \E position \in Positions, claimType \in AllClaimTypes,
       claimValue \in ClaimValues :
        CallVerifyClaimLocally(position, claimType, claimValue)

SpecEval == Init /\ [][NextEval]_vars

Next ==
    \/ \E c \in GenCalls, position \in GenPositions,
          claimType \in AllClaimTypes, claimValue \in GenValues :
           GenCall(c, position, claimType, claimValue)
    \/ \E c \in GenCalls : GenInvokeProver(c)
    \/ \E c \in GenCalls, out \in ProverOutputs : GenProverResolves(c, out)
    \/ \E c \in GenCalls : GenProverRejects(c)

Spec == Init /\ [][Next]_vars

NextCodec ==
    \/ \E decimal \in CodecDecimals : CallDecimalToBytes32(decimal)
    \/ \E point \in G1Points : CallG1PointToBytes(point)
    \/ \E point \in G2Points : CallG2PointToBytes(point)
    \/ \E proof \in Groth16Proofs : CallConvertSnarkjsProofToContract(proof)

SpecCodec == Init /\ [][NextCodec]_vars

NextTransport ==
    \/ \E proof \in Groth16Proofs : CallSerializeProof(proof)
    \/ CallDeserializeProof
    \/ CallSerializeRestored

SpecTransport == Init /\ [][NextTransport]_vars

NextSubmit ==
    \/ \E claimType \in AllClaimTypes, claimValue \in SubmitClaimValues,
          expectedResult \in BOOLEAN, snarkjsProof \in SubmitProofs :
           submitClaim(claimType, claimValue, expectedResult, snarkjsProof)
    \/ \E claimType \in AllClaimTypes, claimValue \in SubmitClaimValues,
          expectedResult \in BOOLEAN, snarkjsProof \in SubmitProofs :
           submitClaimRelayed(claimType, claimValue, expectedResult,
                              snarkjsProof)
    \/ SubmitStepResolves
    \/ SubmitStepRejects
    \/ \E isOk \in BOOLEAN, value \in BOOLEAN : SubmitSent(isOk, value)

SpecSubmit == Init /\ [][NextSubmit]_vars

\* the claims generated while verifications run, and the proof sent
PipelineClaims == {<<5, "adjacent", 2>>, <<5, "row", 0>>}
PipelineProofs ==
    {[pi_a |-> <<NatToDecimal(1), NatToDecimal(2), NatToDecimal(1)>>,
      pi_b |-> <<<<NatToDecimal(1), NatToDecimal(2)>>,
                 <<NatToDecimal(3), NatToDecimal(4)>>,
                 <<NatToDecimal(1), NatToDecimal(0)>>>>,
      pi_c |-> <<NatToDecimal(5), NatToDecimal(6), NatToDecimal(1)>>,
      protocol |-> <<"g", "r", "o", "t", "h", "1", "6">>,
      curve |-> <<"b", "n", "1", "2", "8">>]}

\* the document deployed at VK_PATH
PipelineArtifacts == {"vkA"}

NextPipeline ==
    \/ \E c \in GenCalls, claim \in PipelineClaims :
           GenCall(c, claim[1], claim[2], claim[3])
    \/ \E c \in GenCalls : GenInvokeProver(c)
    \/ \E c \in GenCalls, out \in ProverOutputs : GenProverResolves(c, out)
    \/ \E c \in GenCalls : GenProverRejects(c)
    \/ \E v \in VerCalls : VerCall(v)
    \/ \E v \in VerCalls, ok \in BOOLEAN : VerFetchResolves(v, ok)
    \/ \E v \in VerCalls : VerFetchRejects(v)
    \/ \E v \in VerCalls, body \in PipelineArtifacts :
           VerJsonResolves(v, body)
    \/ \E v \in VerCalls : VerJsonRejects(v)
    \/ \E v \in VerCalls : VerInvokeVerifier(v)
    \/ \E v \in VerCalls, isValid \in BOOLEAN : VerVerifierResolves(v, isValid)
    \/ \E v \in VerCalls : VerVerifierRejects(v)
    \/ \E v \in VerCalls : VerSettled(v)

SpecPipeline == Init /\ [][NextPipeline]_vars

\* every kind of operation of the module: one generation at a time,
\* verifications that may race, and the transport of a proof
NextOperations ==
    \/ \E claim \in PipelineClaims : GenCall(1, claim[1], claim[2], claim[3])
    \/ GenInvokeProver(1)
    \/ \E out \in ProverOutputs : GenProverResolves(1, out)
    \/ GenProverRejects(1)
    \/ \E v \in VerCalls : VerCall(v)
    \/ \E v \in VerCalls, ok \in BOOLEAN : VerFetchResolves(v, ok)
    \/ \E v \in VerCalls : VerFetchRejects(v)
    \/ \E v \in VerCalls, body \in PipelineArtifacts :
           VerJsonResolves(v, body)
    \/ \E v \in VerCalls : VerJsonRejects(v)
    \/ \E v \in VerCalls : VerInvokeVerifier(v)
    \/ \E v \in VerCalls, isValid \in BOOLEAN : VerVerifierResolves(v, isValid)
    \/ \E v \in VerCalls : VerVerifierRejects(v)
    \/ \E v \in VerCalls : VerSettled(v)
    \/ \E proof \in PipelineProofs : CallSerializeProof(proof)
    \/ CallDeserializeProof

SpecOperations == Init /\ [][NextOperations]_vars

\* verifications alone, the server answering with either document
NextVerify ==
    \/ \E v \in VerCalls : VerCall(v)
    \/ \E v \in VerCalls, ok \in BOOLEAN : VerFetchResolves(v, ok)
    \/ \E v \in VerCalls : VerFetchRejects(v)
    \/ \E v \in VerCalls, body \in Artifacts : VerJsonResolves(v, body)
    \/ \E v \in VerCalls : VerJsonRejects(v)
    \/ \E v \in VerCalls : VerInvokeVerifier(v)
    \/ \E v \in VerCalls, isValid \in BOOLEAN : VerVerifierResolves(v, isValid)
    \/ \E v \in VerCalls : VerVerifierRejects(v)
    \/ \E v \in VerCalls : VerSettled(v)

SpecVerify == Init /\ [][NextVerify]_vars

\* one handleClaim in every room and with every selection of the panel
NextClaim ==
    \/ \E room \in Rooms : Mount(room)
    \/ \E sel \in PanelSelections : UserSelects(sel)
    \/ Render(FALSE)
    \/ HandleClaim(1)
    \/ GenInvokeProver(1)
    \/ \E out \in ProverOutputs : GenProverResolves(1, out)
    \/ GenProverRejects(1)
    \/ HandleResumes(1)

SpecClaim == Init /\ [][NextClaim]_vars

\* rooms and selections of the runs in which handleClaim is invoked twice
GameRooms ==
    {room \in Rooms :
        /\ room.myPosition = 5
        /\ room.otherPosition \in {2, 9, NullNumber}}
GameSelections ==
    {sel \in PanelSelections :
        \/ /\ sel.selectedTargetId = "other"
           /\ sel.selectedClaimType \in {"row", "adjacent"}
           /\ sel.selectedClaimValue \in {NullNumber, 1}
        \/ /\ sel.selectedTargetId = "me"
           /\ sel.selectedClaimType = "column"
           /\ sel.selectedClaimValue = 2}

NextGame ==
    \/ \E room \in GameRooms : Mount(room)
    \/ \E sel \in GameSelections : UserSelects(sel)
    \/ \E taken \in BOOLEAN : Render(taken)
    \/ \E h \in HandleCalls : HandleClaim(h)
    \/ \E h \in HandleCalls : GenInvokeProver(h)
    \/ \E h \in HandleCalls, out \in ProverOutputs : GenProverResolves(h, out)
    \/ \E h \in HandleCalls : GenProverRejects(h)
    \/ \E h \in HandleCalls : HandleResumes(h)

SpecGame == Init /\ [][NextGame]_vars

----------------------------------------------------------------------------
(* Properties of verifyClaimLocally, checked under SpecEval.               *)

OnGrid == 1..9

\* C1: for a position in 1..9 and any integer claim value, a row claim is
\* true iff floor((position-1)/3) equals the value, and a column claim is
\* true iff (position-1) mod 3 equals the value.
C1_RowColumn ==
    (ev.called /\ ev.position \in OnGrid) =>
        /\ ev.claimType = "row" =>
             /\ ~ev.result.threw
             /\ ev.result.value <=> ((ev.position - 1) \div 3 = ev.claimValue)
        /\ ev.claimType = "column" =>
             /\ ~ev.result.threw
             /\ ev.result.value <=> ((ev.position - 1) % 3 = ev.claimValue)

C1_Witness ==
    /\ ev.called
    /\ ev.position = 6 /\ ev.claimType = "column" /\ ev.claimValue = 2
    /\ ~ev.result.threw /\ ev.result.value

\* C2: for p and q in 1..9 an adjacent claim is true iff the taxicab
\* distance |row(p)-row(q)| + |col(p)-col(q)| is exactly 1; diagonal cells
\* and 3/4, 6/7 are not adjacent.
C2_Taxicab ==
    (ev.called /\ ev.claimType = "adjacent"
       /\ ev.position \in OnGrid /\ ev.claimValue \in OnGrid) =>
        LET p == ev.position - 1
            q == ev.claimValue - 1
        IN  /\ ~ev.result.threw
            /\ ev.result.value <=>
                 (Abs((p \div 3) - (q \div 3)) + Abs((p % 3) - (q % 3)) = 1)

C2_Witness ==
    /\ ev.called /\ ev.claimType = "adjacent"
    /\ ev.position = 3 /\ ev.claimValue = 4
    /\ ~ev.result.threw /\ ~ev.result.value

\* C3: adjacency is symmetric: for p and q in 1..9 the call (p, adjacent, q)
\* gives what the call (q, adjacent, p) gives.
C3_Symmetric ==
    (ev.called /\ ev.claimType = "adjacent"
       /\ ev.position \in OnGrid /\ ev.claimValue \in OnGrid) =>
        ev.result = verifyClaimLocally(ev.claimValue, "adjacent", ev.position)

C3_Witness ==
    /\ ev.called /\ ev.claimType = "adjacent"
    /\ ev.position = 8 /\ ev.claimValue = 5
    /\ ~ev.result.threw /\ ev.result.value

\* C4: for every position outside 1..9 the call throws the position error
\* and returns no truth value, whatever the claim type and claim value.
C4_InvalidPositionThrows ==
    (ev.called /\ ev.position \notin OnGrid) =>
        /\ ev.result.threw
        /\ ev.result.error = PositionErrorMessage

C4_Witness ==
    /\ ev.called /\ ev.position > 9 /\ ev.claimType = "diagonal"
    /\ ev.result.threw

\* C5: a claim type outside row, column, adjacent makes the call fail with
\* UnsupportedClaimType; it never returns a boolean for such a type.
C5_UnknownTypeFails ==
    (ev.called /\ ev.claimType \notin ClaimTypes) =>
        /\ ev.result.threw
        /\ ev.position \in OnGrid => ev.result.error = "UnsupportedClaimType"

----------------------------------------------------------------------------
(* Properties of generateClaimProof, checked under Spec.                   *)

\* C6: isTrue is computed by verifyClaimLocally before fullProve is
\* invoked, and the expectedResult handed to the prover is 1 exactly when
\* that isTrue is true and 0 otherwise.
C6_IsTrueBeforeProver ==
    [][\A c \in GenCalls :
         gen'[c].proverCalls > gen[c].proverCalls =>
           /\ gen[c].isTrueSet
           /\ gen[c].isTrue =
                verifyClaimLocally(gen[c].position, gen[c].claimType,
                                   gen[c].claimValue).value
           /\ gen'[c].proverInputs.expectedResult \in {0, 1}
           /\ gen'[c].proverInputs.expectedResult = 1 <=> gen[c].isTrue]_vars

C6_Witness ==
    \E c, d \in GenCalls :
        /\ gen[c].proverCalls = 1 /\ gen[c].isTrue
        /\ gen[c].proverInputs.expectedResult = 1
        /\ gen[d].proverCalls = 1 /\ ~gen[d].isTrue
        /\ gen[d].proverInputs.expectedResult = 0

\* C7: when generateClaimProof completes successfully, the isTrue it
\* returns is what verifyClaimLocally gives for the same inputs.
C7_ReturnedIsTrue ==
    \A c \in GenCalls :
        gen[c].pc = "resolved" =>
            LET r == verifyClaimLocally(gen[c].position, gen[c].claimType,
                                        gen[c].claimValue)
            IN  /\ gen[c].result.present
                /\ ~r.threw
                /\ gen[c].result.isTrue = r.value

C7_Witness ==
    \E c, d \in GenCalls :
        /\ gen[c].pc = "resolved" /\ gen[c].claimType = "adjacent"
        /\ gen[c].result.isTrue
        /\ gen[d].pc = "resolved" /\ gen[d].claimType = "row"
        /\ ~gen[d].result.isTrue

\* C8: when the prover fails the call fails too: the prover was invoked at
\* most once in the call and no result is returned.
C8_ProverFailurePropagates ==
    \A c \in GenCalls :
        /\ gen[c].proverCalls <= 1
        /\ gen[c].error = ProverErrorMessage =>
             /\ gen[c].pc = "rejected"
             /\ ~gen[c].result.present
        /\ gen[c].result.present => gen[c].pc = "resolved"

C8_Witness ==
    \E c \in GenCalls :
        /\ gen[c].pc = "rejected" /\ gen[c].error = ProverErrorMessage
        /\ gen[c].proverCalls = 1 /\ ~gen[c].result.present

\* C9: a call with a position outside 1..9 fails before delegating: the
\* prover is never invoked in that call.
C9_InvalidPositionNoProver ==
    \A c \in GenCalls :
        (gen[c].pc # "idle" /\ gen[c].position \notin OnGrid) =>
            /\ gen[c].pc = "rejected"
            /\ gen[c].error = PositionErrorMessage
            /\ gen[c].proverCalls = 0

C9_Witness ==
    \E c \in GenCalls :
        /\ gen[c].pc = "rejected" /\ gen[c].position \notin OnGrid
        /\ gen[c].proverCalls = 0

\* C10: a call with a claim type outside row, column, adjacent fails before
\* delegating: the prover is never invoked in that call.
C10_UnknownTypeNoProver ==
    \A c \in GenCalls :
        (gen[c].pc # "idle" /\ gen[c].claimType \notin ClaimTypes) =>
            /\ gen[c].pc = "rejected"
            /\ gen[c].proverCalls = 0

----------------------------------------------------------------------------
(* Properties of the byte codec, checked under SpecCodec.                  *)

\* magnitude * 256 + b, limb by limb from the least significant one
RECURSIVE MulAdd256(_, _, _, _)
MulAdd256(mag, k, carry, out) ==
    IF k = 0
    THEN StripLeadingZeros(IF carry = 0 THEN out ELSE <<carry>> \o out)
    ELSE CHOOSE res \in
             {MulAdd256(mag, k - 1, cur \div LimbBase,
                        <<cur % LimbBase>> \o out) :
                 cur \in {mag[k] * 256 + carry}} : TRUE

\* the unsigned big-endian value of a byte sequence: sum b[i] * 256^(n-i)
RECURSIVE BytesValueFrom(_, _, _)
BytesValueFrom(bytes, i, acc) ==
    IF i > Len(bytes) THEN acc
    ELSE CHOOSE res \in
             {BytesValueFrom(bytes, i + 1, next) :
                 next \in {MulAdd256(acc, Len(acc), bytes[i], <<>>)}} : TRUE

BytesValue(bytes) == BytesValueFrom(bytes, 1, <<0>>)

\* sum of two magnitudes
RECURSIVE AddLimbs(_, _, _, _, _)
AddLimbs(a, b, k, carry, out) ==
    IF k >= Len(a) /\ k >= Len(b)
    THEN StripLeadingZeros(IF carry = 0 THEN out ELSE <<carry>> \o out)
    ELSE CHOOSE res \in
             {AddLimbs(a, b, k + 1, cur \div LimbBase,
                       <<cur % LimbBase>> \o out) :
                 cur \in {(IF k < Len(a) THEN a[Len(a) - k] ELSE 0)
                            + (IF k < Len(b) THEN b[Len(b) - k] ELSE 0)
                            + carry}} : TRUE

AddMag(a, b) == AddLimbs(a, b, 0, 0, <<>>)

\* a < b for magnitudes
MagLess(a, b) ==
    \/ Len(a) < Len(b)
    \/ /\ Len(a) = Len(b)
       /\ \E i \in 1..Len(a) :
            /\ a[i] < b[i]
            /\ \A j \in 1..(i - 1) : a[j] = b[j]

Mag2p256 == ParseDigits(Dec_2p256)

\* k * 2^256
RECURSIVE Wraps(_)
Wraps(k) == IF k = 0 THEN <<0>> ELSE AddMag(Wraps(k - 1), Mag2p256)

\* multiples of 2^256 tried when a value is reduced modulo 2^256
MaxWraps == 3

IsBytes(bytes, n) ==
    /\ Len(bytes) = n
    /\ \A i \in 1..n : bytes[i] \in 0..255

InRange256(num) == ~num.neg /\ MagLess(num.mag, Mag2p256)

\* C15: for 0 <= v < 2^256 decimalToBytes32 returns 32 bytes, each in
\* 0..255, whose big-endian value is v; 0 gives 32 zero bytes, 255 gives 31
\* zero bytes then 0xFF, 2^256-1 gives 32 bytes of 0xFF.
C15_BigEndian ==
    (codec.op = "decimalToBytes32" /\ InRange256(BigInt(codec.arg))) =>
        /\ IsBytes(codec.out, 32)
        /\ BytesValue(codec.out) = BigInt(codec.arg).mag
        /\ codec.arg = <<"0">> => codec.out = [i \in 1..32 |-> 0]
        /\ codec.arg = <<"2", "5", "5">> =>
             codec.out = [i \in 1..32 |-> IF i = 32 THEN 255 ELSE 0]
        /\ codec.arg = Dec_2p256m1 => codec.out = [i \in 1..32 |-> 255]

C15_Witness ==
    /\ codec.op = "decimalToBytes32"
    /\ codec.arg = Dec_BaseFieldMax
    /\ codec.out[1] = 48 /\ codec.out[32] = 70

\* C16: decimalToBytes32 signals no error for an out-of-range integer: for
\* v >= 2^256 and for negative v it returns the 32-byte big-endian encoding
\* of v mod 2^256 (negative values wrap in two's complement).
C16_WrapsModulo ==
    (codec.op = "decimalToBytes32" /\ ~InRange256(BigInt(codec.arg))) =>
        LET num == BigInt(codec.arg)
            low == BytesValue(codec.out)
        IN  /\ IsBytes(codec.out, 32)
            /\ \E k \in 1..MaxWraps :
                 IF num.neg
                 THEN AddMag(low, num.mag) = Wraps(k)
                 ELSE AddMag(low, Wraps(k)) = num.mag

C16_Witness ==
    /\ codec.op = "decimalToBytes32"
    /\ codec.arg = <<"-", "1">>
    /\ codec.out = [i \in 1..32 |-> 255]

\* C17: g2PointToBytes returns 128 bytes: bytes32(x_imag) at offset 0,
\* bytes32(x_real) at 32, bytes32(y_imag) at 64, bytes32(y_real) at 96;
\* [[1,2],[3,4]] gives bytes32(2), bytes32(1), bytes32(4), bytes32(3).
C17_G2ImagFirst ==
    codec.op = "g2PointToBytes" =>
        /\ IsBytes(codec.out, 128)
        /\ SubSeq(codec.out, 1, 32) = decimalToBytes32(codec.arg[1][2])
        /\ SubSeq(codec.out, 33, 64) = decimalToBytes32(codec.arg[1][1])
        /\ SubSeq(codec.out, 65, 96) = decimalToBytes32(codec.arg[2][2])
        /\ SubSeq(codec.out, 97, 128) = decimalToBytes32(codec.arg[2][1])
        /\ (codec.arg[1] = <<<<"1">>, <<"2">>>>
              /\ codec.arg[2] = <<<<"3">>, <<"4">>>>) =>
             codec.out = [i \in 1..128 |->
                            CASE i = 32 -> 2 [] i = 64 -> 1
                              [] i = 96 -> 4 [] i = 128 -> 3 [] OTHER -> 0]

C17_Witness ==
    /\ codec.op = "g2PointToBytes"
    /\ codec.arg = <<<<<<"1">>, <<"2">>>>, <<<<"3">>, <<"4">>>>,
                     <<<<"1">>, <<"0">>>>>>
    /\ codec.out[32] = 2 /\ codec.out[64] = 1
    /\ codec.out[96] = 4 /\ codec.out[128] = 3

\* C18: g1PointToBytes returns 64 bytes: bytes32(x) at offset 0 then
\* bytes32(y) at offset 32, no reordering; a third element of the point does
\* not affect the output.
C18_G1XThenY ==
    codec.op = "g1PointToBytes" =>
        /\ IsBytes(codec.out, 64)
        /\ SubSeq(codec.out, 1, 32) = decimalToBytes32(codec.arg[1])
        /\ SubSeq(codec.out, 33, 64) = decimalToBytes32(codec.arg[2])

C18_Witness ==
    /\ codec.op = "g1PointToBytes"
    /\ codec.arg = <<<<"3">>, <<"4">>, <<"0">>>>
    /\ codec.out = [i \in 1..64 |->
                      CASE i = 32 -> 3 [] i = 64 -> 4 [] OTHER -> 0]

\* C19: convertSnarkjsProofToContract(proof) is {a: g1PointToBytes(pi_a),
\* b: g2PointToBytes(pi_b), c: g1PointToBytes(pi_c)} and nothing else, so a
\* has 64 bytes, b 128 bytes and c 64 bytes.
C19_ConvertComposes ==
    codec.op = "convertSnarkjsProofToContract" =>
        /\ DOMAIN codec.out = {"a", "b", "c"}
        /\ codec.out.a = g1PointToBytes(codec.arg.pi_a)
        /\ codec.out.b = g2PointToBytes(codec.arg.pi_b)
        /\ codec.out.c = g1PointToBytes(codec.arg.pi_c)
        /\ IsBytes(codec.out.a, 64)
        /\ IsBytes(codec.out.b, 128)
        /\ IsBytes(codec.out.c, 64)

C19_Witness ==
    /\ codec.op = "convertSnarkjsProofToContract"
    /\ codec.arg.pi_a[1] = <<"1">> /\ codec.arg.pi_c[1] = <<"5">>
    /\ codec.out.a[32] = 1 /\ codec.out.c[32] = 5
    /\ Len(codec.out.b) = 128

----------------------------------------------------------------------------
(* Properties of the proof transport, checked under SpecTransport.         *)

\* the value an object holds under a key
Field(object, key) ==
    object.items[CHOOSE i \in 1..Len(object.keys) : object.keys[i] = key]

KeySet(object) == {object.keys[i] : i \in 1..Len(object.keys)}

\* C20: deserializeProof(serializeProof(p)) equals p structurally: the same
\* fields pi_a, pi_b, pi_c, protocol, curve with the same values.
C20_RoundTrip ==
    tr.stage = "deserialized" =>
        /\ tr.restored.t = "obj"
        /\ Len(tr.restored.keys) = Len(tr.proof.keys)
        /\ KeySet(tr.restored) = KeySet(tr.proof)
        /\ \A key \in KeySet(tr.proof) :
             Field(tr.restored, key) = Field(tr.proof, key)

C20_Witness ==
    /\ tr.stage = "deserialized"
    /\ Len(tr.serialized) > 100
    /\ Field(tr.restored, <<"c", "u", "r", "v", "e">>)
         = JStr(<<"b", "n", "1", "2", "8">>)
    /\ Field(tr.restored, <<"p", "i", "_", "a">>).items[1] = JStr(Dec_BaseFieldMax)

----------------------------------------------------------------------------
(* Properties of generation and verification running together, checked     *)
(* under SpecPipeline (C13 under SpecOperations).                          *)

\* C11: generateClaimProof mutates no shared state: a step of a generation
\* leaves the verification-key cache and the other call alone, and each
\* call's isTrue and prover inputs are those of its own position, claim type
\* and claim value, whatever the interleaving.
C11_NoSharedState ==
    [][/\ gen' # gen => vkCache' = vkCache
       /\ \A c \in GenCalls :
            /\ gen'[c] # gen[c] =>
                 \A d \in GenCalls \ {c} : gen'[d] = gen[d]
            /\ gen'[c].isTrueSet =>
                 gen'[c].isTrue =
                   verifyClaimLocally(gen'[c].position, gen'[c].claimType,
                                      gen'[c].claimValue).value
            /\ gen'[c].proverCalls > 0 =>
                 gen'[c].proverInputs =
                   [position |-> gen'[c].position,
                    claimType |-> CLAIM_TYPE_MAP[gen'[c].claimType],
                    claimValue |-> gen'[c].claimValue,
                    expectedResult |->
                      IF verifyClaimLocally(gen'[c].position,
                                            gen'[c].claimType,
                                            gen'[c].claimValue).value
                      THEN 1 ELSE 0]]_vars

C11_Witness ==
    /\ vkCache # NoKey
    /\ \E c, d \in GenCalls :
         /\ gen[c].pc = "awaitProver" /\ gen[c].proverInputs.expectedResult = 1
         /\ gen[d].pc = "resolved" /\ ~gen[d].result.isTrue
         /\ gen[d].proverInputs.claimType = 0

\* C12: once a verifyProof call has fetched the key, a verifyProof call
\* that starts later performs no fetch and passes the key it found cached
\* to the external verifier.
C12_CachedKeyReused ==
    [][\A v \in VerCalls :
         /\ (ver[v].pc = "idle" /\ ver'[v].pc # "idle" /\ vkCache # NoKey) =>
              /\ ver'[v].hit
              /\ ver'[v].vk = vkCache
              /\ ver'[v].pc = "haveKey"
         /\ ver'[v].hit =>
              /\ ver'[v].fetches = 0
              /\ ver'[v].pc \notin {"awaitFetch", "awaitJson"}
              /\ ver'[v].vk # NoKey
              /\ ver'[v].verifierCalls > 0 =>
                   ver'[v].vkPassed = ver'[v].vk]_vars

C12_Witness ==
    \E v \in VerCalls :
        /\ ver[v].hit /\ ver[v].pc = "resolved"
        /\ ver[v].fetches = 0 /\ ver[v].verifierCalls = 1
        /\ ver[v].vkPassed = vkCache

\* C13: the verification-key cache is never invalidated: once it holds a
\* key it never returns to empty, under any sequence of generate, verify,
\* serialize and deserialize operations.
C13_CacheNeverEmptied ==
    [][vkCache # NoKey => vkCache' # NoKey]_vars

C13_Witness ==
    /\ vkCache # NoKey
    /\ tr.stage = "deserialized"
    /\ \E c \in GenCalls : gen[c].pc = "resolved"
    /\ \E v \in VerCalls : ver[v].pc = "rejected" /\ ver[v].fetches = 1

\* C14: when the response to the key fetch is not ok, verifyProof fails with
\* the load error, has made exactly one fetch in that call, and does not
\* invoke the external verifier.
C14_LoadFailure ==
    \A v \in VerCalls :
        ver[v].response = "notOk" =>
            /\ ver[v].pc = "rejected"
            /\ ver[v].error = VkLoadErrorMessage
            /\ ver[v].fetches = 1
            /\ ver[v].verifierCalls = 0
            /\ ~ver[v].result.present

C14_Witness ==
    \E v \in VerCalls :
        /\ ver[v].response = "notOk" /\ ver[v].pc = "rejected"
        /\ ver[v].fetches = 1 /\ ver[v].verifierCalls = 0

----------------------------------------------------------------------------
(* Further properties of the proof transport, checked under SpecTransport. *)

\* C21: serializeProof(deserializeProof(s)) equals s for every string s that
\* serializeProof produced: serializing the restored proof gives back the
\* same text, character for character.
C21_StringRoundTrip ==
    tr.stage = "reserialized" => tr.reserialized = tr.serialized

C21_Witness ==
    /\ tr.stage = "reserialized"
    /\ Len(tr.reserialized) > 100
    /\ tr.reserialized[1] = "{"
    /\ Field(tr.restored, <<"p", "i", "_", "a">>).items[1] = JStr(Dec_BaseFieldMax)

----------------------------------------------------------------------------
(* Properties of the contract message, checked under SpecSubmit.           *)

\* the part of the message a claim type decides
EnumMember(claimType) ==
    CASE claimType = "row" -> ClaimType.Row
      [] claimType = "column" -> ClaimType.Column
      [] claimType = "adjacent" -> ClaimType.Adjacent

\* C22: the claim-type encoding is row=0, column=1, adjacent=2 everywhere:
\* the prover's map, the service's map and the contract's enum agree, the
\* claim_type of a submit_claim / submit_claim_relayed message is that
\* number, and the message's proof is convertSnarkjsProofToContract of the
\* native proof.
C22_EncodingAgrees ==
    /\ \A claimType \in ClaimTypes :
         /\ CLAIM_TYPE_MAP[claimType] = CLAIM_TYPE_MAP_Service[claimType]
         /\ CLAIM_TYPE_MAP_Service[claimType] = EnumMember(claimType)
    /\ CLAIM_TYPE_MAP.row = 0 /\ CLAIM_TYPE_MAP.column = 1
    /\ CLAIM_TYPE_MAP.adjacent = 2
    /\ chain.pc # "idle" =>
         /\ chain.claimType \in ClaimTypes =>
              /\ chain.message.claim_type = CLAIM_TYPE_MAP[chain.claimType]
              /\ chain.message.claim_type = EnumMember(chain.claimType)
         /\ chain.message.proof.a = g1PointToBytes(chain.snarkjsProof.pi_a)
         /\ chain.message.proof.b = g2PointToBytes(chain.snarkjsProof.pi_b)
         /\ chain.message.proof.c = g1PointToBytes(chain.snarkjsProof.pi_c)
         /\ chain.message.claim_value = chain.claimValue
         /\ chain.message.expected_result = chain.expectedResult

C22_Witness ==
    /\ chain.pc = "resolved"
    /\ chain.method = "submit_claim_relayed"
    /\ chain.claimType = "adjacent"
    /\ chain.message.claim_type = 2
    /\ Len(chain.message.proof.b) = 128
    /\ chain.message.proof.b[32] = 2
    /\ chain.message.proof.b[64] = 1

----------------------------------------------------------------------------
(* Further properties of verifyClaimLocally, checked under SpecEval.       *)

\* C23: for all p, q in 1..9, verifyClaimLocally(p, 'adjacent', q) is true
\* iff q is listed in ADJACENCY_MAP[p]; in particular no cell is adjacent to
\* itself.
C23_AgreesWithTable ==
    (/\ ev.called /\ ev.claimType = "adjacent"
     /\ ev.position \in 1..9 /\ ev.claimValue \in 1..9) =>
        /\ ~ev.result.threw
        /\ ev.result.value <=> ListedAdjacent(ev.position, ev.claimValue)
        /\ ev.position = ev.claimValue => ~ev.result.value

C23_Witness ==
    /\ ev.called /\ ev.claimType = "adjacent"
    /\ ev.position = 6 /\ ev.claimValue = 9
    /\ ~ev.result.threw /\ ev.result.value
    /\ ListedAdjacent(6, 9)

\* C28: for every position p in 1..9 and every claim value q outside 1..9,
\* verifyClaimLocally(p, 'adjacent', q) returns false.
C28_OffGridNeverAdjacent ==
    (/\ ev.called /\ ev.claimType = "adjacent"
     /\ ev.position \in 1..9 /\ ev.claimValue \notin 1..9) =>
        /\ ~ev.result.threw
        /\ ~ev.result.value

----------------------------------------------------------------------------
(* Properties of racing and failing key loads, checked under SpecVerify.   *)

\* calls that missed the cache and whose own fetch delivered a key
Fetched(v) == /\ ~ver[v].hit /\ ver[v].fetches = 1 /\ ver[v].vk # NoKey

\* C24: two verifyProof calls that both start before either fetch completes
\* both fetch and both complete; when both fetches returned the same
\* artifact, each call hands the verifier that key and the cache holds it,
\* whichever fetch finished last.
C24_RaceSameArtifact ==
    \A v, w \in VerCalls :
        (/\ v # w /\ Fetched(v) /\ Fetched(w) /\ ver[v].vk = ver[w].vk) =>
            /\ vkCache = ver[v].vk
            /\ \A u \in {v, w} :
                 ver[u].verifierCalls > 0 => ver[u].vkPassed = ver[v].vk

C24_Witness ==
    /\ Fetched(1) /\ Fetched(2)
    /\ ver[1].pc = "resolved" /\ ver[2].pc = "resolved"
    /\ ver[1].vkPassed = "vkB" /\ ver[2].vkPassed = "vkB"
    /\ vkCache = "vkB"

\* C25: at most one fetch of the verification key is in flight at any time.
C25_OneFetchInFlight ==
    Cardinality({v \in VerCalls : ver[v].pc = "awaitFetch"}) <= 1

\* C27: a failed key load leaves the cache as it was, so a cache that was
\* empty is still empty after the failure, and a verifyProof call that
\* finds the cache empty issues a fresh fetch.
C27_FailedLoadLeavesCacheEmpty ==
    [][\A v \in VerCalls :
         /\ (/\ ver[v].pc \in {"awaitFetch", "awaitJson"}
             /\ ver'[v].pc = "rejected") =>
                /\ vkCache' = vkCache
                /\ ver'[v].vk = NoKey
                /\ ver'[v].verifierCalls = 0
         /\ (/\ ver[v].pc = "idle" /\ ver'[v].pc # "idle"
             /\ vkCache = NoKey) =>
                /\ ver'[v].pc = "awaitFetch"
                /\ ver'[v].fetches = 1
                /\ ~ver'[v].hit]_vars

C27_Witness ==
    /\ vkCache = NoKey
    /\ ver[1].pc = "rejected" /\ ver[1].error = JsonErrorMessage
    /\ ver[2].pc = "awaitFetch" /\ ver[2].fetches = 1

----------------------------------------------------------------------------
(* Properties of Game.handleClaim, checked under SpecGame (two             *)
(* invocations) and SpecClaim (every room and selection).                  *)

Selection ==
    <<game.selectedTargetId, game.selectedClaimType, game.selectedClaimValue>>

C29_OneGenerationInFlight ==
    Cardinality({h \in HandleCalls : game.calls[h].pc = "awaitProof"}) <= 1

\* the one-based row and column of a cell, and orthogonal neighbourhood,
\* counted on the grid
OneBasedRow(p) == CHOOSE r \in 1..3 : p \in (3 * r - 2)..(3 * r)
OneBasedColumn(p) == CHOOSE c \in 1..3 : \E k \in 0..2 : p = 3 * k + c
Orthogonal(p, q) ==
    \/ /\ OneBasedRow(p) = OneBasedRow(q)
       /\ OneBasedColumn(p) - OneBasedColumn(q) \in {-1, 1}
    \/ /\ OneBasedColumn(p) = OneBasedColumn(q)
       /\ OneBasedRow(p) - OneBasedRow(q) \in {-1, 1}

\* C30: handleClaim proves the claim about the target: generateClaimProof
\* gets the selected target's position; a row or column claim with panel
\* value v in 1..3 goes to the circuit as v - 1 and the submitted isTrue is
\* true iff the target's one-based row (column) is v; an adjacent claim goes
\* with the claimer's position and isTrue is true iff target and claimer
\* are orthogonally adjacent.
C30_ClaimAboutTarget ==
    \A h \in HandleCalls :
        LET call == game.calls[h]
            target == PlayerPosition(call.selectedTargetId)
            v == call.valueToSubmit
            sent == game.calls[h].pc = "submitted"
            isTrue == game.submitted[Len(game.submitted)].zkProof.isTrue
        IN  call.pc \in {"awaitProof", "submitted"} =>
              /\ gen[h].position = target
              /\ gen[h].claimType = call.selectedClaimType
              /\ (call.selectedClaimType \in {"row", "column"}
                  /\ v.t = "number") =>
                    /\ gen[h].claimValue = v.n - 1
                    /\ sent /\ call.selectedClaimType = "row" =>
                         (isTrue <=> OneBasedRow(target) = v.n)
                    /\ sent /\ call.selectedClaimType = "column" =>
                         (isTrue <=> OneBasedColumn(target) = v.n)
              /\ call.selectedClaimType = "adjacent" =>
                    /\ gen[h].claimValue = game.myPosition
                    /\ sent => (isTrue <=> Orthogonal(target, game.myPosition))

C30_Witness ==
    /\ game.calls[1].pc = "submitted"
    /\ game.myPosition = 5 /\ game.otherPosition = 8
    /\ game.calls[1].selectedClaimType = "adjacent"
    /\ game.calls[1].selectedTargetId = "other"
    /\ gen[1].position = 8 /\ gen[1].claimValue = 5
    /\ Len(game.submitted) = 1
    /\ game.submitted[1].zkProof.isTrue

====
